---------------------------- MODULE Spec2Model ----------------------------
(***************************************************************************)
(* A model of gitHttpBackend.py: the adapter that runs "git http-backend"  *)
(* as a CGI subprocess, pumps the request body into it, scans its output   *)
(* for the CGI header boundary, parses the header and streams the body.    *)
(*                                                                         *)
(* Byte strings are sequences of one-character strings.  CR and LF stand   *)
(* for the bytes 0x0D and 0x0A.                                            *)
(***************************************************************************)
EXTENDS Integers, Sequences, FiniteSets, TLC

(***************************************************************************)
(* Module constants (gitHttpBackend.py lines 8-12).  The two sizes are     *)
(* scaled down: the chunk size still holds a whole terminator (4 bytes),   *)
(* and the maximum header size is still a multiple of the chunk size.      *)
(***************************************************************************)
DEFAULT_CHUNK_SIZE == 4

DEFAULT_MAX_HEADER_SIZE == 8

CR == "\r"

LF == "\n"

CRLF == <<CR, LF>>

HEADER_END == CRLF \o CRLF

(***************************************************************************)
(* Python string primitives, as the interpreter computes them.             *)
(***************************************************************************)
Min(a, b) == IF a < b THEN a ELSE b

Max(a, b) == IF a > b THEN a ELSE b

\* s[i:j] for 0 <= i, j (already normalised, zero-based, j exclusive).
Slice(s, i, j) ==
  LET lo == Min(i, Len(s))
      hi == Min(j, Len(s))
  IN  IF hi <= lo THEN <<>> ELSE SubSeq(s, lo + 1, hi)

\* Python's index normalisation for slices: a negative index counts from
\* the end and is clamped to 0.
NormIndex(s, i) == IF i < 0 THEN Max(Len(s) + i, 0) ELSE Min(i, Len(s))

\* s[:i]
PyPrefix(s, i) == Slice(s, 0, NormIndex(s, i))

\* s[i:]
PySuffix(s, i) == Slice(s, NormIndex(s, i), Len(s))

\* Whether pat occurs in s at zero-based offset i.
OccursAt(s, pat, i) ==
  /\ i >= 0
  /\ i + Len(pat) <= Len(s)
  /\ SubSeq(s, i + 1, i + Len(pat)) = pat

\* s.find(pat): the lowest offset of pat in s, or -1.
Find(s, pat) ==
  LET hits == {i \in 0..Len(s) : OccursAt(s, pat, i)}
  IN  IF hits = {} THEN -1
      ELSE CHOOSE i \in hits : \A j \in hits : i <= j

RECURSIVE Concat(_)
\* ''.join(list)
Concat(list) ==
  IF list = <<>> THEN <<>> ELSE Head(list) \o Concat(Tail(list))

RECURSIVE SumLen(_)
\* sum(map(len, list))
SumLen(list) ==
  IF list = <<>> THEN 0 ELSE Len(Head(list)) + SumLen(Tail(list))

Whitespace == {" ", "\t", CR, LF}

RECURSIVE LStrip(_)
LStrip(s) ==
  IF s # <<>> /\ Head(s) \in Whitespace THEN LStrip(Tail(s)) ELSE s

RECURSIVE RStrip(_)
RStrip(s) ==
  IF s # <<>> /\ s[Len(s)] \in Whitespace
  THEN RStrip(SubSeq(s, 1, Len(s) - 1))
  ELSE s

\* s.strip()
Strip(s) == RStrip(LStrip(s))

RECURSIVE Split(_, _)
\* s.split(sep): the pieces of s between the occurrences of sep, scanned
\* left to right; always at least one piece.
Split(s, sep) ==
  LET i == Find(s, sep)
  IN  IF i = -1 THEN <<s>>
      ELSE <<Slice(s, 0, i)>> \o Split(Slice(s, i + Len(sep), Len(s)), sep)

\* s.split(sep, 1): at most one split, at the first occurrence.
Split1(s, sep) ==
  LET i == Find(s, sep)
  IN  IF i = -1 THEN <<s>>
      ELSE <<Slice(s, 0, i), Slice(s, i + Len(sep), Len(s))>>


(***************************************************************************)
(* parse_cgi_header (lines 102-118).                                       *)
(***************************************************************************)
Status == <<"S", "t", "a", "t", "u", "s">>

DefaultStatusLine == <<"2", "0", "0", " ", "O", "K">>

\* header_dict[name] = value (line 113): a Python dict as a function.
DictSet(header_dict, name, value) ==
  [k \in DOMAIN header_dict \cup {name} |->
     IF k = name THEN value ELSE header_dict[k]]

\* Lines 114-115: every line whose name is not 'Status' appends its name.
AppendName(names, name) ==
  IF name # Status THEN Append(names, name) ELSE names

RECURSIVE ParseLines(_, _, _)
\* The loop of lines 110-115 over raw_lines[:-1].  A line without a colon
\* makes the unpacking of line 111 raise ValueError.
ParseLines(lines, header_dict, names) ==
  IF lines = <<>>
  THEN [error |-> "none", header_dict |-> header_dict, names |-> names]
  ELSE LET parts == Split1(Strip(Head(lines)), <<":">>)
       IN  IF Len(parts) # 2
           THEN [error |-> "ValueError", header_dict |-> header_dict,
                 names |-> names]
           ELSE LET name == parts[1]
                    value == Strip(parts[2])
                IN  ParseLines(Tail(lines),
                               DictSet(header_dict, name, value),
                               AppendName(names, name))

\* A variant of line 116 that defaults only when the key is missing:
\* header_dict.pop('Status', '200 OK').
StatusLineOf_DefaultOnMissingOnly(header_dict) ==
  IF Status \in DOMAIN header_dict
  THEN header_dict[Status]
  ELSE DefaultStatusLine

\* Line 116: header_dict.pop('Status', None) or '200 OK'.
StatusLineOf(header_dict) ==
  IF Status \in DOMAIN header_dict /\ header_dict[Status] # <<>>
  THEN header_dict[Status]
  ELSE DefaultStatusLine

\* Line 117, after the pop of line 116 removed 'Status' from the dict.
ListOfHeaders(header_dict, names) ==
  [i \in 1..Len(names) |-> <<names[i], header_dict[names[i]]>>]

parse_cgi_header(cgi_header) ==
  LET raw_lines == Split(cgi_header, CRLF)
  IN  IF raw_lines[Len(raw_lines)] # <<>>
      THEN [error |-> "AssertionError", status_line |-> <<>>,
            list_of_headers |-> <<>>]
      ELSE LET r == ParseLines(SubSeq(raw_lines, 1, Len(raw_lines) - 1),
                               <<>>, <<>>)
           IN  IF r.error # "none"
               THEN [error |-> r.error, status_line |-> <<>>,
                     list_of_headers |-> <<>>]
               ELSE [error |-> "none",
                     status_line |-> StatusLineOf(r.header_dict),
                     list_of_headers |->
                       ListOfHeaders(r.header_dict, r.names)]

(***************************************************************************)
(* The header boundary scanner and splitter (lines 121-211).               *)
(***************************************************************************)
\* Python's None for header_end; a found boundary is a pair
\* <<header_end_on_boundary, index_within_chunk>>.
None == <<>>

\* _search_str_for_header_end (lines 190-192).
_search_str_for_header_end(data_str) == Find(data_str, HEADER_END)

\* A variant of line 180 that keeps only two bytes of the earlier chunk:
\* chunk0[-2:] + chunk1[:3].
BoundaryString_TwoBytes(chunk0, chunk1) ==
  PySuffix(chunk0, -2) \o PyPrefix(chunk1, 3)

\* chunk0[-3:] + chunk1[:3] (line 180).
BoundaryString(chunk0, chunk1) == PySuffix(chunk0, -3) \o PyPrefix(chunk1, 3)

\* _find_header_end_in_2_chunks (lines 174-187).
_find_header_end_in_2_chunks(chunk0, chunk1) ==
  LET on_boundary == _search_str_for_header_end(BoundaryString(chunk0, chunk1))
      in_chunk1 == _search_str_for_header_end(chunk1)
  IN  IF on_boundary # -1 THEN <<TRUE, Len(chunk0) - 3 + on_boundary>>
      ELSE IF in_chunk1 # -1 THEN <<FALSE, in_chunk1>>
      ELSE None

\* A variant of _separate_header without line 208: the header is joined
\* without the CRLF appended after the last header chunk.
_separate_header_NoCRLF(chunks, on_boundary, index) ==
  LET n == Len(chunks)
      header_chunks ==
        IF on_boundary THEN SubSeq(chunks, 1, n - 2)
        ELSE SubSeq(chunks, 1, n - 1)
      last_header_chunk == IF on_boundary THEN chunks[n - 1] ELSE chunks[n]
      body_start_index ==
        IF on_boundary THEN 4 - (Len(last_header_chunk) - index)
        ELSE index + 4
      header == Concat(header_chunks \o <<PyPrefix(last_header_chunk, index)>>)
      remainder == PySuffix(chunks[n], body_start_index)
  IN  <<header, remainder>>

\* _separate_header (lines 195-211): <<header, remainder>>.
_separate_header(chunks, header_end_on_boundary, index_within_chunk) ==
  LET n == Len(chunks)
      header_chunks ==
        IF header_end_on_boundary THEN SubSeq(chunks, 1, n - 2)
        ELSE SubSeq(chunks, 1, n - 1)
      last_header_chunk ==
        IF header_end_on_boundary THEN chunks[n - 1] ELSE chunks[n]
      body_start_index ==
        IF header_end_on_boundary
        THEN 4 - (Len(last_header_chunk) - index_within_chunk)
        ELSE index_within_chunk + 4
      header ==
        Concat(header_chunks
               \o <<PyPrefix(last_header_chunk, index_within_chunk)>>
               \o <<CRLF>>)
      remainder == PySuffix(chunks[n], body_start_index)
  IN  <<header, remainder>>

\* A variant of line 136 that lets one more chunk through.
HeaderTooLarge_OneChunkLate(total_bytes_read) ==
  total_bytes_read > DEFAULT_MAX_HEADER_SIZE + DEFAULT_CHUNK_SIZE

\* A variant of line 136 that already fails at the maximum itself.
HeaderTooLarge_AtMaximum(total_bytes_read) ==
  total_bytes_read >= DEFAULT_MAX_HEADER_SIZE

\* Line 136: the size check at the head of every iteration.
HeaderTooLarge(total_bytes_read) ==
  total_bytes_read > DEFAULT_MAX_HEADER_SIZE

(***************************************************************************)
(* run_git_http_backend's declared length (line 55) and the pump's request *)
(* size (line 167).                                                        *)
(***************************************************************************)
DigitChars == <<"0", "1", "2", "3", "4", "5", "6", "7", "8", "9">>

IsDigit(c) == \E i \in 1..Len(DigitChars) : DigitChars[i] = c

DigitValue(c) == (CHOOSE i \in 1..Len(DigitChars) : DigitChars[i] = c) - 1

RECURSIVE DigitsValue(_)
DigitsValue(d) ==
  IF d = <<>> THEN 0
  ELSE 10 * DigitsValue(SubSeq(d, 1, Len(d) - 1)) + DigitValue(d[Len(d)])

\* int(text): surrounding whitespace is dropped, one sign is allowed, and
\* what is left must be one or more digits; anything else is a ValueError.
PyInt(text) ==
  LET t == Strip(text)
      signed == t # <<>> /\ Head(t) \in {"+", "-"}
      digits == IF signed THEN Tail(t) ELSE t
      ok == digits # <<>> /\ \A i \in 1..Len(digits) : IsDigit(digits[i])
  IN  IF ~ok THEN [error |-> TRUE, value |-> 0]
      ELSE [error |-> FALSE,
            value |-> IF signed /\ Head(t) = "-"
                      THEN 0 - DigitsValue(digits)
                      ELSE DigitsValue(digits)]

\* Line 55: int(cgi_environ.get('CONTENT_LENGTH', '') or 0).
InputLength(environ) ==
  LET text == IF "CONTENT_LENGTH" \in DOMAIN environ
              THEN environ["CONTENT_LENGTH"]
              ELSE <<>>
  IN  IF text = <<>> THEN [error |-> FALSE, value |-> 0] ELSE PyInt(text)

\* A variant of line 167 that always asks for a whole chunk.
BytesToRead_WholeChunk(done, length) == DEFAULT_CHUNK_SIZE

\* Line 167: min(DEFAULT_CHUNK_SIZE, input_length - bytes_read).
BytesToRead(done, length) == Min(DEFAULT_CHUNK_SIZE, length - done)

\* A variant of lines 130-131 that runs the pump inline: the caller goes on
\* to the scan only when the pump has returned, and an exception raised in
\* the pump is raised in the caller.
CallerGoesOn_PumpInline(pump) == pump = "done"

\* Lines 130-132: the pump is started as a thread of its own, so the caller
\* goes on to the scan as soon as the thread exists, whatever becomes of
\* the thread.
CallerGoesOn(pump) == pump \in {"loop", "write", "done", "failed"}

(***************************************************************************)
(* State.                                                                  *)
(***************************************************************************)
VARIABLES
  header_lines,   \* the header lines the CGI script meant to send
  parse_pc,       \* "ready" | "done"
  parse_result,   \* what parse_cgi_header returned or raised
  stream,         \* every byte the subprocess writes to stdout, in order
  stdout_kind,    \* "stream": a finished stream handed over in any chunks;
                  \* "pipe": Popen's buffered pipe object
  proc_out,       \* how many bytes of stream the subprocess has written
  stdout_closed,  \* the subprocess has closed its stdout
  proc_exited,    \* proc.poll() reports an exit status
  pos,            \* how many bytes the adapter's reads have returned
  rbuf,           \* bytes a read in progress has taken off the pipe
  chunks,         \* _communicate_with_git's chunk buffer
  header_end,     \* None or <<header_end_on_boundary, index_within_chunk>>
  main_pc,        \* "scan" | "too_large" | "not_found" | "returned"
  cgi_header,     \* the header _communicate_with_git returned
  remainder,      \* the remainder handed to the generator
  gen_pc,         \* "none" | "start" | "reading" | "polling" | "exhausted"
  body_received,  \* the caller's concatenation of the yielded elements
  cgi_environ,    \* the CGI environment: here its CONTENT_LENGTH entry only
  run_pc,         \* "ready" | "ValueError" | "spawned"
  input_length,   \* run_git_http_backend's input_length
  input_stream,   \* the bytes the request's input stream offers
  in_pos,         \* how many of them have been read
  bytes_read,     \* _input_data_pump's bytes_read
  bytes_to_read,  \* _input_data_pump's bytes_to_read
  current_data,   \* _input_data_pump's current_data
  to_write,       \* the part of current_data a write in progress still holds
  pump_pc,        \* "loop" | "write" | "done" | "failed"
  stdin_pipe,     \* bytes written to the subprocess's stdin, not yet read
  stdin_closed,   \* proc.stdin.close() has run
  proc_plan,      \* the order in which the subprocess reads and writes
  proc_input,     \* the bytes the subprocess has read from its stdin
  proc_eof,       \* the subprocess has read end-of-file on its stdin
  wsgi_environ,   \* the gateway metadata handed to build_cgi_environ
  git_project_root, \* build_cgi_environ's git_project_root
  user            \* build_cgi_environ's user

parse_vars == <<header_lines, parse_pc, parse_result>>

out_vars == <<stream, stdout_kind, proc_out, stdout_closed, proc_exited>>

main_vars == <<pos, rbuf, chunks, header_end, main_pc, cgi_header, remainder,
               gen_pc, body_received>>

pump_vars == <<cgi_environ, run_pc, input_length, input_stream, in_pos,
               bytes_read, bytes_to_read, current_data, to_write, pump_pc,
               stdin_pipe, stdin_closed>>

proc_vars == <<proc_plan, proc_input, proc_eof>>

environ_vars == <<wsgi_environ, git_project_root, user>>

vars == <<parse_vars, out_vars, main_vars, pump_vars, proc_vars, environ_vars>>

(***************************************************************************)
(* Header lines on the wire.  A line is a field name, a value and the way  *)
(* whitespace is laid around the colon.                                    *)
(***************************************************************************)
MaxLines == 3

FieldNames == {Status, <<"A">>, <<"B">>}

FieldValues == {<<>>, <<"1">>, <<":", "2">>}

LineStyles == {"tight", "canon", "spaced"}

HeaderLine == [name : FieldNames, value : FieldValues, style : LineStyles]

\* "Name:value", "Name: value" or " Name : value ".
FormatLine(l) ==
  CASE l.style = "tight" -> l.name \o <<":">> \o l.value
    [] l.style = "canon" -> l.name \o <<":", " ">> \o l.value
    [] OTHER -> <<" ">> \o l.name \o <<" ", ":", " ">> \o l.value \o <<" ">>

RECURSIVE FormatHeader(_)
\* The raw header run_git_http_backend returns for these lines: every
\* line ends with CRLF.
FormatHeader(lines) ==
  IF lines = <<>> THEN <<>>
  ELSE FormatLine(Head(lines)) \o CRLF \o FormatHeader(Tail(lines))

WellFormed(lines) == \A i \in 1..Len(lines) : lines[i].style # "spaced"

NoResult == [error |-> "pending", status_line |-> <<>>, list_of_headers |-> <<>>]

ParseIdle ==
  /\ header_lines = <<>>
  /\ parse_pc = "idle"
  /\ parse_result = NoResult

OutIdle ==
  /\ stream = <<>>
  /\ stdout_kind = "none"
  /\ proc_out = 0
  /\ stdout_closed = FALSE
  /\ proc_exited = FALSE

MainIdle ==
  /\ pos = 0
  /\ rbuf = <<>>
  /\ chunks = <<>>
  /\ header_end = None
  /\ main_pc = "idle"
  /\ cgi_header = <<>>
  /\ remainder = <<>>
  /\ gen_pc = "none"
  /\ body_received = <<>>

PumpIdle ==
  /\ cgi_environ = <<>>
  /\ run_pc = "idle"
  /\ input_length = 0
  /\ input_stream = <<>>
  /\ in_pos = 0
  /\ bytes_read = 0
  /\ bytes_to_read = 0
  /\ current_data = <<>>
  /\ to_write = <<>>
  /\ pump_pc = "idle"
  /\ stdin_pipe = <<>>
  /\ stdin_closed = FALSE

ProcIdle ==
  /\ proc_plan = "none"
  /\ proc_input = <<>>
  /\ proc_eof = FALSE

EnvironIdle ==
  /\ wsgi_environ = <<>>
  /\ git_project_root = <<>>
  /\ user = <<>>

(***************************************************************************)
(* The header parser on its own.                                           *)
(***************************************************************************)
InitParse ==
  /\ OutIdle
  /\ MainIdle
  /\ PumpIdle
  /\ ProcIdle
  /\ EnvironIdle
  /\ header_lines \in UNION {[1..n -> HeaderLine] : n \in 0..MaxLines}
  /\ parse_pc = "ready"
  /\ parse_result = NoResult

\* wsgi_to_git_http_backend, line 31.
ParseHeader ==
  /\ parse_pc = "ready"
  /\ parse_result' = parse_cgi_header(FormatHeader(header_lines))
  /\ parse_pc' = "done"
  /\ UNCHANGED <<header_lines, out_vars, main_vars, pump_vars, proc_vars,
                 environ_vars>>

NextParse == ParseHeader

SpecParse == InitParse /\ [][NextParse]_vars

(***************************************************************************)
(* What the header lines say, read off the lines themselves.               *)
(***************************************************************************)
HasField(lines, name) == \E i \in 1..Len(lines) : lines[i].name = name

\* The value of the last line that carries this name.
LastValueOf(lines, name) ==
  LET at == {i \in 1..Len(lines) : lines[i].name = name}
  IN  lines[CHOOSE i \in at : \A j \in at : j <= i].value

RECURSIVE FirstAppearances(_, _)
\* The distinct non-Status names, each at the place it first appears.
FirstAppearances(lines, seen) ==
  IF lines = <<>> THEN <<>>
  ELSE LET n == Head(lines).name
       IN  IF n = Status \/ n \in seen
           THEN FirstAppearances(Tail(lines), seen)
           ELSE <<n>> \o FirstAppearances(Tail(lines), seen \cup {n})

OncePerName(lines) ==
  LET ns == FirstAppearances(lines, {})
  IN  [i \in 1..Len(ns) |-> <<ns[i], LastValueOf(lines, ns[i])>>]

ParsedWellFormed == parse_pc = "done" /\ WellFormed(header_lines)

\* C5: for well-formed header lines, the returned list holds each distinct
\* non-Status name exactly once, at the position of its first appearance,
\* with the value of its last occurrence.
C5_EachNameOnce ==
  ParsedWellFormed =>
    /\ parse_result.error = "none"
    /\ parse_result.list_of_headers = OncePerName(header_lines)

\* C6 as stated: for well-formed header lines, the status line is the value
\* of the Status field when one is present and "200 OK" when none is, and
\* no pair named Status is in the returned list.
C6_StatusIsFieldValue ==
  ParsedWellFormed =>
    /\ parse_result.error = "none"
    /\ parse_result.status_line =
         IF HasField(header_lines, Status)
         THEN LastValueOf(header_lines, Status)
         ELSE DefaultStatusLine
    /\ \A i \in 1..Len(parse_result.list_of_headers) :
         parse_result.list_of_headers[i][1] # Status

\* C6 amended: for well-formed header lines, the status line is the value of
\* the last Status field when one is present with a non-empty value, and
\* "200 OK" when none is present or that value is empty; no pair named
\* Status is in the returned list.
C6_StatusOrDefault ==
  ParsedWellFormed =>
    /\ parse_result.error = "none"
    /\ parse_result.status_line =
         IF /\ HasField(header_lines, Status)
            /\ LastValueOf(header_lines, Status) # <<>>
         THEN LastValueOf(header_lines, Status)
         ELSE DefaultStatusLine
    /\ \A i \in 1..Len(parse_result.list_of_headers) :
         parse_result.list_of_headers[i][1] # Status

\* C6 witness: a parsed well-formed header with a non-empty Status value
\* between two other fields.
C6_Witness ==
  /\ ParsedWellFormed
  /\ Len(header_lines) = 3
  /\ header_lines[2].name = Status
  /\ header_lines[2].value = <<"1">>
  /\ header_lines[1].name # Status
  /\ header_lines[3].name # Status
  /\ parse_result.status_line = <<"1">>
  /\ Len(parse_result.list_of_headers) = 2

(***************************************************************************)
(* Reading the subprocess's stdout.                                        *)
(*                                                                         *)
(* As a "stream", proc.stdout is any file object over the finished output: *)
(* read(n) returns between 1 and n of the bytes still to come, and nothing *)
(* only at the end.  As a "pipe", it is the buffered object Popen makes:   *)
(* read(n) takes bytes off the pipe as they arrive and returns once it has *)
(* n of them or the subprocess has closed its stdout.                      *)
(***************************************************************************)
ReadSizes ==
  IF pos = Len(stream) THEN {0}
  ELSE 1..Min(DEFAULT_CHUNK_SIZE, Len(stream) - pos)

ReadData(n) == Slice(stream, pos, pos + n)

\* Bytes written to the stdout pipe and not yet taken off it.
PipeAvail == proc_out - (pos + Len(rbuf))

\* What proc.stdout.read(DEFAULT_CHUNK_SIZE) may return now; nothing at all
\* while the read blocks.
ReadReturns ==
  IF stdout_kind = "stream" THEN {ReadData(n) : n \in ReadSizes}
  ELSE IF \/ Len(rbuf) = DEFAULT_CHUNK_SIZE
          \/ PipeAvail = 0 /\ stdout_closed
       THEN {rbuf}
       ELSE {}

(***************************************************************************)
(* _communicate_with_git's scan loop and _response_body_generator.         *)
(***************************************************************************)
\* Lines 135-141: the accumulated total exceeds the maximum.
ScanTooLarge ==
  /\ main_pc = "scan"
  /\ HeaderTooLarge(SumLen(chunks))
  /\ main_pc' = "too_large"
  /\ UNCHANGED <<pos, rbuf, chunks, header_end, cgi_header, remainder,
                 gen_pc, body_received>>

\* Lines 142-148: the read returns nothing.
ScanEndOfStream ==
  /\ main_pc = "scan"
  /\ ~HeaderTooLarge(SumLen(chunks))
  /\ <<>> \in ReadReturns
  /\ main_pc' = "not_found"
  /\ UNCHANGED <<pos, rbuf, chunks, header_end, cgi_header, remainder,
                 gen_pc, body_received>>

\* Lines 134-142: the scan is past the size check and its read returns a
\* chunk.  Lines 142-158: the chunk is appended and the two most
\* recent chunks are searched; when the boundary is found the header is
\* separated and the generator is created.
ScanChunkReady ==
  /\ main_pc = "scan"
  /\ ~HeaderTooLarge(SumLen(chunks))
  /\ ReadReturns \ {<<>>} # {}

ScanChunk ==
  /\ ScanChunkReady
  /\ \E chuck_data \in ReadReturns \ {<<>>} :
       LET new_chunks == Append(chunks, chuck_data)
           found == _find_header_end_in_2_chunks(
                      new_chunks[Len(new_chunks) - 1],
                      new_chunks[Len(new_chunks)])
       IN  /\ pos' = pos + Len(chuck_data)
           /\ rbuf' = <<>>
           /\ chunks' = new_chunks
           /\ header_end' = found
           /\ IF found = None
              THEN UNCHANGED <<main_pc, cgi_header, remainder, gen_pc>>
              ELSE LET sep == _separate_header(new_chunks, found[1], found[2])
                   IN  /\ cgi_header' = sep[1]
                       /\ remainder' = sep[2]
                       /\ main_pc' = "returned"
                       /\ gen_pc' = "start"
  /\ UNCHANGED body_received

\* A variant of lines 223-224 without the loop: the generator ends after
\* the zero-length read whatever the poll reports.
AfterPoll_NoLoop(exited) == "exhausted"

\* Lines 223-224: while proc.poll() is None: yield ''.  The generator ends
\* when the poll reports an exit status and yields '' otherwise.
AfterPoll(exited) == IF exited THEN "exhausted" ELSE "polling"

\* Line 217: the first element is the remainder.
GenYieldRemainder ==
  /\ gen_pc = "start"
  /\ body_received' = body_received \o remainder
  /\ gen_pc' = "reading"
  /\ UNCHANGED <<pos, rbuf, chunks, header_end, main_pc, cgi_header,
                 remainder>>

\* Lines 218-221: a read that returns data, which is yielded.
GenYieldData ==
  /\ gen_pc = "reading"
  /\ \E data \in ReadReturns \ {<<>>} :
       /\ body_received' = body_received \o data
       /\ pos' = pos + Len(data)
       /\ rbuf' = <<>>
  /\ UNCHANGED <<chunks, header_end, main_pc, cgi_header, remainder, gen_pc>>

\* Lines 219-224: the read returns nothing; the generator goes on to the
\* poll loop, which yields '' while the subprocess has not exited.
GenEndOfStream ==
  /\ gen_pc = "reading"
  /\ <<>> \in ReadReturns
  /\ gen_pc' = AfterPoll(proc_exited)
  /\ UNCHANGED <<pos, rbuf, chunks, header_end, main_pc, cgi_header,
                 remainder, body_received>>

\* Lines 223-224: one more turn of the poll loop.
GenPoll ==
  /\ gen_pc = "polling"
  /\ gen_pc' = AfterPoll(proc_exited)
  /\ UNCHANGED <<pos, rbuf, chunks, header_end, main_pc, cgi_header,
                 remainder, body_received>>

\* The subprocess exits, some time after it closed its stdout; one that
\* reads its stdin to the end after closing stdout exits at end-of-file.  Over a
\* finished stream the exit is placed after the last byte is read: the
\* adapter polls only after the zero-length read, so it cannot tell an
\* earlier exit from this one.
ProcExit ==
  /\ stdout_closed
  /\ stdout_kind = "stream" => pos = Len(stream)
  /\ proc_plan = "close_first" => proc_eof
  /\ ~proc_exited
  /\ proc_exited' = TRUE
  /\ UNCHANGED <<stream, stdout_kind, proc_out, stdout_closed>>

(***************************************************************************)
(* The scan and the generator over a finished stream, in every chunking.   *)
(***************************************************************************)
MaxFill == 5

MaxMid == 4

MaxBody == 2

Alphabet == {CR, LF}

Fill(k, c) == [i \in 1..k |-> c]

\* The streams explored: a run of "a", then any mix of CR and LF, then a
\* run of "b".
Streams ==
  {Fill(k, "a") \o t \o Fill(m, "b") :
     k \in 0..MaxFill,
     t \in UNION {[1..n -> Alphabet] : n \in 0..MaxMid},
     m \in 0..MaxBody}

\* Lines 132-133, with the subprocess's whole output behind stdout.
InitScan ==
  /\ ParseIdle
  /\ PumpIdle
  /\ ProcIdle
  /\ EnvironIdle
  /\ stream \in Streams
  /\ stdout_kind = "stream"
  /\ proc_out = Len(stream)
  /\ stdout_closed = TRUE
  /\ proc_exited = FALSE
  /\ pos = 0
  /\ rbuf = <<>>
  /\ chunks = <<<<>>>>
  /\ header_end = None
  /\ main_pc = "scan"
  /\ cgi_header = <<>>
  /\ remainder = <<>>
  /\ gen_pc = "none"
  /\ body_received = <<>>

\* The scan and the generator run in the calling thread; nothing else moves.
ScanOnly ==
  UNCHANGED <<parse_vars, out_vars, pump_vars, proc_vars, environ_vars>>

NextScan ==
  \/ ScanTooLarge /\ ScanOnly
  \/ ScanEndOfStream /\ ScanOnly
  \/ ScanChunk /\ ScanOnly
  \/ GenYieldRemainder /\ ScanOnly
  \/ GenYieldData /\ ScanOnly
  \/ GenEndOfStream /\ ScanOnly
  \/ GenPoll /\ ScanOnly
  \/ ProcExit /\ UNCHANGED <<parse_vars, main_vars, pump_vars, proc_vars,
                             environ_vars>>

SpecScan == InitScan /\ [][NextScan]_vars

(***************************************************************************)
(* What the stream holds, read off the stream itself.                      *)
(***************************************************************************)
\* The offsets at which a complete CRLFCRLF starts.
TerminatorOffsets(s) == {i \in 0..Len(s) : OccursAt(s, HEADER_END, i)}

FirstTerminator(s) ==
  CHOOSE i \in TerminatorOffsets(s) : \A j \in TerminatorOffsets(s) : i <= j

ScanFailed == main_pc \in {"too_large", "not_found"}

\* The scan has just returned: the generator has not read yet, so pos is
\* the end of the last chunk the scan read.
JustReturned == main_pc = "returned" /\ gen_pc = "start"

\* C1: for a stream with exactly one CRLFCRLF, at offset P (the terminator
\* within the maximum header size), and any chunking, the scan ends with a
\* boundary: the header is the bytes before P plus one CRLF and the
\* remainder is the bytes of the last chunk read after P+4.
C1_BoundaryAnyChunking ==
  LET P == FirstTerminator(stream)
  IN  /\ Cardinality(TerminatorOffsets(stream)) = 1
      /\ P + 4 <= DEFAULT_MAX_HEADER_SIZE
      => /\ ~ScanFailed
         /\ JustReturned =>
              /\ cgi_header = Slice(stream, 0, P) \o CRLF
              /\ remainder = Slice(stream, P + 4, pos)

\* C2: a stream longer than the maximum header size whose first
\* DEFAULT_MAX_HEADER_SIZE bytes hold no complete CRLFCRLF ends the scan
\* with the header-too-large error: it never returns a header nor reports
\* the boundary as not found.
C2_SizeBound ==
  /\ Len(stream) > DEFAULT_MAX_HEADER_SIZE
  /\ TerminatorOffsets(Slice(stream, 0, DEFAULT_MAX_HEADER_SIZE)) = {}
  => main_pc \in {"scan", "too_large"}

NoTerminatorWithinMaximum ==
  /\ TerminatorOffsets(stream) = {}
  /\ Len(stream) <= DEFAULT_MAX_HEADER_SIZE

\* C3: a stream that ends without a CRLFCRLF and is no longer than the
\* maximum header size ends the scan with the boundary-not-found error:
\* the scan never returns and never reports the header as too large, and
\* once the stream is read to its end the next step is that error.
C3_PrematureEnd ==
  NoTerminatorWithinMaximum =>
    /\ main_pc \in {"scan", "not_found"}
    /\ gen_pc = "none"
    /\ main_pc = "scan" /\ pos = Len(stream) => ENABLED ScanEndOfStream
    /\ main_pc = "not_found" => pos = Len(stream)

\* C3 witness: a stream of three bytes, read one byte at a time, ended the
\* scan with the boundary-not-found error.
C3_Witness ==
  /\ NoTerminatorWithinMaximum
  /\ Len(stream) = 3
  /\ Len(chunks) = 4
  /\ main_pc = "not_found"

\* C4: when the terminator was found and the generator has seen the
\* zero-length read, the yielded elements concatenate to exactly the bytes
\* written after the 4-byte terminator.
C4_BodyComplete ==
  /\ main_pc = "returned"
  /\ gen_pc \in {"polling", "exhausted"}
  => body_received = Slice(stream, FirstTerminator(stream) + 4, Len(stream))

(***************************************************************************)
(* run_git_http_backend as a whole: the declared length, the subprocess    *)
(* behind two pipes of bounded capacity, the pump thread and the caller.   *)
(***************************************************************************)
MaxInput == 6

MaxLengthText == 2

StdinCapacity == 2

StdoutCapacity == 2

LengthChars == {"5", "-", " ", "x"}

\* The CONTENT_LENGTH entries explored: none, or any text of these characters.
Environs ==
  {<<>>} \cup
  {[k \in {"CONTENT_LENGTH"} |-> t] :
     t \in UNION {[1..n -> LengthChars] : n \in 0..MaxLengthText}}

\* Input streams: empty, shorter than the declared length, and longer.
InputSizes == {0, MaxInput \div 2, MaxInput}

\* The input stream's bytes are told apart by their place in the stream.
InputBytes(n) == [i \in 1..n |-> i]

HeaderFills == {0, 1, DEFAULT_MAX_HEADER_SIZE + 1}

\* What the subprocess writes: a header, the terminator or nothing in its
\* place, and a body.
Responses ==
  {Fill(k, "a") \o t \o Fill(m, "b") :
     k \in HeaderFills, t \in {<<>>, HEADER_END}, m \in {0, MaxBody}}

\* The subprocess writes all its output before it reads any input, reads the
\* declared length before it writes, reads to end-of-file before it writes,
\* or reads and writes in any order.
Plans == {"output_first", "input_first", "until_eof", "interleaved"}

\* A subprocess that writes its output and closes stdout without waiting
\* for its input, then reads its stdin to end-of-file before it exits.
LingeringPlans == {"close_first"}

BackendStart ==
  /\ ParseIdle
  /\ EnvironIdle
  /\ MainIdle
  /\ stdout_kind = "pipe"
  /\ proc_out = 0
  /\ stdout_closed = FALSE
  /\ proc_exited = FALSE
  /\ run_pc = "ready"
  /\ input_length = 0
  /\ in_pos = 0
  /\ bytes_read = 0
  /\ bytes_to_read = 0
  /\ current_data = <<>>
  /\ to_write = <<>>
  /\ pump_pc = "idle"
  /\ stdin_pipe = <<>>
  /\ stdin_closed = FALSE
  /\ proc_input = <<>>
  /\ proc_eof = FALSE

InitBackend ==
  /\ BackendStart
  /\ cgi_environ \in Environs
  /\ input_stream \in {InputBytes(n) : n \in InputSizes}
  /\ stream \in Responses
  /\ proc_plan \in Plans

\* Lines 55-66 and 130-133: the declared length is computed (or int()
\* raises), the subprocess is spawned, the pump thread is started and the
\* caller enters the scan loop.
RunBackend ==
  /\ run_pc = "ready"
  /\ LET length == InputLength(cgi_environ)
     IN  IF length.error
         THEN /\ run_pc' = "ValueError"
              /\ UNCHANGED <<input_length, pump_pc, main_pc, chunks>>
         ELSE /\ run_pc' = "spawned"
              /\ input_length' = length.value
              /\ pump_pc' = "loop"
              /\ main_pc' = "scan"
              /\ chunks' = <<<<>>>>
  /\ UNCHANGED <<parse_vars, out_vars, proc_vars, environ_vars, pos, rbuf,
                 header_end, cgi_header, remainder, gen_pc, body_received,
                 cgi_environ, input_stream, in_pos, bytes_read,
                 bytes_to_read, current_data, to_write, stdin_pipe,
                 stdin_closed>>

\* What input_stream.read(n) may return: between 1 and n of the bytes still
\* to come, and nothing at the end of the stream.
InputReadReturns(n) ==
  IF in_pos = Len(input_stream) THEN {<<>>}
  ELSE {Slice(input_stream, in_pos, in_pos + k) :
          k \in 1..Min(n, Len(input_stream) - in_pos)}

\* Lines 166-169: one more turn of the loop: the request size, the read and
\* the count.
PumpRead ==
  /\ pump_pc = "loop"
  /\ bytes_read < input_length
  /\ LET n == BytesToRead(bytes_read, input_length)
     IN  /\ bytes_to_read' = n
         /\ \E data \in InputReadReturns(n) :
              /\ current_data' = data
              /\ to_write' = data
              /\ in_pos' = in_pos + Len(data)
              /\ bytes_read' = bytes_read + Len(data)
  /\ pump_pc' = "write"
  /\ UNCHANGED <<cgi_environ, run_pc, input_length, input_stream, stdin_pipe,
                 stdin_closed>>

\* Line 170: proc.stdin.write(current_data) puts bytes into the pipe as
\* room appears and returns when all of them are in.
PumpWrite ==
  /\ pump_pc = "write"
  /\ LET room == StdinCapacity - Len(stdin_pipe)
         k == Min(room, Len(to_write))
     IN  /\ to_write = <<>> \/ (room > 0 /\ ~proc_exited)
         /\ stdin_pipe' = stdin_pipe \o Slice(to_write, 0, k)
         /\ to_write' = Slice(to_write, k, Len(to_write))
         /\ pump_pc' = IF k = Len(to_write) THEN "loop" ELSE "write"
  /\ UNCHANGED <<cgi_environ, run_pc, input_length, input_stream, in_pos,
                 bytes_read, bytes_to_read, current_data, stdin_closed>>

\* Lines 166 and 171: the loop condition fails and stdin is closed.
PumpClose ==
  /\ pump_pc = "loop"
  /\ ~(bytes_read < input_length)
  /\ stdin_closed' = TRUE
  /\ pump_pc' = "done"
  /\ UNCHANGED <<cgi_environ, run_pc, input_length, input_stream, in_pos,
                 bytes_read, bytes_to_read, current_data, to_write,
                 stdin_pipe>>

\* The subprocess has all the input it waits for: the declared length, or
\* end-of-file.
ProcInputDone ==
  \/ proc_eof
  \/ /\ proc_plan \notin {"until_eof", "close_first"}
     /\ Len(proc_input) >= input_length

ProcMayRead == proc_plan # "output_first" \/ proc_out = Len(stream)

ProcMayWrite ==
  proc_plan \notin {"input_first", "until_eof"} \/ ProcInputDone

\* The subprocess reads a byte of its stdin.
ProcRead ==
  /\ run_pc = "spawned"
  /\ ~proc_exited
  /\ ~ProcInputDone
  /\ ProcMayRead
  /\ stdin_pipe # <<>>
  /\ proc_input' = Append(proc_input, Head(stdin_pipe))
  /\ stdin_pipe' = Tail(stdin_pipe)
  /\ UNCHANGED <<proc_plan, proc_eof, out_vars, cgi_environ, run_pc,
                 input_length, input_stream, in_pos, bytes_read,
                 bytes_to_read, current_data, to_write, pump_pc,
                 stdin_closed>>

\* The subprocess reads end-of-file on its stdin.
ProcReadEof ==
  /\ run_pc = "spawned"
  /\ ~proc_exited
  /\ ~ProcInputDone
  /\ ProcMayRead
  /\ stdin_pipe = <<>>
  /\ stdin_closed
  /\ proc_eof' = TRUE
  /\ UNCHANGED <<proc_plan, proc_input, out_vars, pump_vars>>

\* The subprocess writes its next byte to stdout, when the pipe has room.
ProcWrite ==
  /\ run_pc = "spawned"
  /\ ~stdout_closed
  /\ proc_out < Len(stream)
  /\ ProcMayWrite
  /\ PipeAvail < StdoutCapacity
  /\ proc_out' = proc_out + 1
  /\ UNCHANGED <<stream, stdout_kind, stdout_closed, proc_exited, proc_vars,
                 pump_vars>>

\* The subprocess has written everything and read its input, or does not
\* wait for its input: it closes its stdout.
ProcClose ==
  /\ run_pc = "spawned"
  /\ proc_out = Len(stream)
  /\ ProcInputDone \/ proc_plan = "close_first"
  /\ ~stdout_closed
  /\ stdout_closed' = TRUE
  /\ UNCHANGED <<stream, stdout_kind, proc_out, proc_exited, proc_vars,
                 pump_vars>>

\* The caller is inside proc.stdout.read: in the scan loop past the size
\* check, or in the generator.
InRead ==
  \/ main_pc = "scan" /\ ~HeaderTooLarge(SumLen(chunks))
  \/ gen_pc = "reading"

\* The read in progress takes what the pipe holds, up to the size asked for.
PipeFill ==
  /\ stdout_kind = "pipe"
  /\ InRead
  /\ Len(rbuf) < DEFAULT_CHUNK_SIZE
  /\ PipeAvail > 0
  /\ LET k == Min(PipeAvail, DEFAULT_CHUNK_SIZE - Len(rbuf))
         from == pos + Len(rbuf)
     IN  rbuf' = rbuf \o Slice(stream, from, from + k)
  /\ UNCHANGED <<pos, chunks, header_end, main_pc, cgi_header, remainder,
                 gen_pc, body_received>>

\* A step of the calling thread leaves everything else alone.
CallerOnly ==
  /\ CallerGoesOn(pump_pc)
  /\ UNCHANGED <<parse_vars, out_vars, pump_vars, proc_vars, environ_vars>>

CallerNext ==
  \/ ScanTooLarge /\ CallerOnly
  \/ ScanEndOfStream /\ CallerOnly
  \/ ScanChunk /\ CallerOnly
  \/ GenYieldRemainder /\ CallerOnly
  \/ GenYieldData /\ CallerOnly
  \/ GenEndOfStream /\ CallerOnly
  \/ GenPoll /\ CallerOnly
  \/ PipeFill /\ CallerOnly

PumpOnly ==
  UNCHANGED <<parse_vars, out_vars, main_vars, proc_vars, environ_vars>>

PumpNext ==
  \/ PumpRead /\ PumpOnly
  \/ PumpWrite /\ PumpOnly
  \/ PumpClose /\ PumpOnly

ProcOnly == UNCHANGED <<parse_vars, main_vars, environ_vars>>

ProcNext ==
  \/ ProcRead /\ ProcOnly
  \/ ProcReadEof /\ ProcOnly
  \/ ProcWrite /\ ProcOnly
  \/ ProcClose /\ ProcOnly
  \/ ProcExit /\ ProcOnly /\ UNCHANGED <<pump_vars, proc_vars>>

NextBackend ==
  \/ RunBackend
  \/ CallerNext
  \/ PumpNext
  \/ ProcNext

SpecBackend == InitBackend /\ [][NextBackend]_vars

\* Threads and the subprocess are scheduled by the operating system: each
\* of them that can take a step eventually takes one.
Fairness ==
  /\ WF_vars(RunBackend)
  /\ WF_vars(CallerNext)
  /\ WF_vars(PumpNext)
  /\ WF_vars(ProcNext)

FairBackend == SpecBackend /\ Fairness

(***************************************************************************)
(* Claims about the pump, the declared length and the two pipes.           *)
(***************************************************************************)
\* The bytes the pump has put into the subprocess's stdin so far.
BytesWritten == proc_input \o stdin_pipe

\* C7: with a declared length L >= 0 and an input stream of at least L
\* bytes, the pump never asks for bytes past L (the bytes it already has
\* plus the size it asks for stay within L), what it has written is the
\* stream's bytes in order, and stdin is closed only with exactly the first
\* L bytes written.
C7_LengthEnforced ==
  /\ run_pc = "spawned"
  /\ input_length >= 0
  /\ Len(input_stream) >= input_length
  => /\ in_pos <= input_length
     /\ pump_pc = "write" =>
          (in_pos - Len(current_data)) + bytes_to_read <= input_length
     /\ BytesWritten \o to_write = Slice(input_stream, 0, in_pos)
     /\ stdin_closed => BytesWritten = Slice(input_stream, 0, input_length)

\* C7 witness: declared length 5, a longer input stream, stdin closed after
\* two reads (4 bytes asked for, then 1) and the subprocess has read 5 bytes.
C7_Witness ==
  /\ run_pc = "spawned"
  /\ input_length = 5
  /\ Len(input_stream) > input_length
  /\ bytes_to_read = 1
  /\ stdin_closed
  /\ Len(proc_input) = 5

\* The subprocess's output has its terminator within the maximum header
\* size, so the scan returns a header and the caller goes on to the body.
ResponseServed ==
  /\ TerminatorOffsets(stream) # {}
  /\ FirstTerminator(stream) + 4 <= DEFAULT_MAX_HEADER_SIZE

\* C8: whatever the declared length and the input stream, once the pump is
\* started it eventually leaves its loop and closes stdin.
C8_PumpTerminates == (run_pc = "spawned" /\ ResponseServed) ~> stdin_closed

PumpBlocked ==
  /\ pump_pc = "write"
  /\ to_write # <<>>
  /\ Len(stdin_pipe) = StdinCapacity

ProcBlockedOnStdout ==
  /\ proc_out < Len(stream)
  /\ ProcMayWrite
  /\ PipeAvail = StdoutCapacity

NothingReadsStdout ==
  \/ ~CallerGoesOn(pump_pc)
  \/ ScanFailed
  \/ gen_pc = "exhausted"

TwoPipeDeadlock ==
  /\ run_pc = "spawned"
  /\ PumpBlocked
  /\ ProcBlockedOnStdout
  /\ NothingReadsStdout

BodyExhausted == main_pc = "returned" /\ gen_pc = "exhausted"

\* C9: with bounded pipes and the caller pulling, the pump is never blocked
\* on a full stdin while the subprocess is blocked on a full stdout that
\* nothing reads, and once the subprocess is spawned the run eventually
\* returns the header and exhausts the body stream.
C9_NoDeadlockAndDelivery ==
  /\ [](ResponseServed => ~TwoPipeDeadlock)
  /\ (run_pc = "spawned" /\ ResponseServed) ~> BodyExhausted

\* CONTENT_LENGTH is absent, empty, or not an integer.
NoDeclaredLength ==
  \/ "CONTENT_LENGTH" \notin DOMAIN cgi_environ
  \/ cgi_environ["CONTENT_LENGTH"] = <<>>
  \/ PyInt(cgi_environ["CONTENT_LENGTH"]).error

\* C10: when CONTENT_LENGTH is absent, empty or not an integer, no error is
\* raised, the subprocess is spawned with declared length zero and nothing
\* is read from the input stream.
C10_DefaultsToZero ==
  run_pc # "ready" /\ NoDeclaredLength =>
    /\ run_pc = "spawned"
    /\ input_length = 0
    /\ in_pos = 0

\* The runs C8 and C9 hold on: the input stream offers the declared length.
InputOffered == Len(input_stream) >= input_length

PumpTerminatesWhenOffered ==
  (run_pc = "spawned" /\ ResponseServed /\ InputOffered) ~> stdin_closed

DeliveryWhenOffered ==
  /\ [](ResponseServed => ~TwoPipeDeadlock)
  /\ (run_pc = "spawned" /\ ResponseServed /\ InputOffered) ~> BodyExhausted

(***************************************************************************)
(* A subprocess that exits early, and the pump's write failing on the      *)
(* broken pipe.                                                            *)
(***************************************************************************)
\* The subprocess exits before it is through: its stdout ends with what it
\* has written so far and nothing reads its stdin any more.
ProcExitEarly ==
  /\ run_pc = "spawned"
  /\ ~stdout_closed
  /\ ~proc_exited
  /\ stdout_closed' = TRUE
  /\ proc_exited' = TRUE
  /\ UNCHANGED <<stream, stdout_kind, proc_out, proc_vars, pump_vars>>

\* Line 170 on a pipe nobody reads: proc.stdin.write raises, and the
\* exception ends the pump thread before line 171.
PumpWriteFails ==
  /\ pump_pc = "write"
  /\ to_write # <<>>
  /\ proc_exited
  /\ pump_pc' = "failed"
  /\ UNCHANGED <<cgi_environ, run_pc, input_length, input_stream, in_pos,
                 bytes_read, bytes_to_read, current_data, to_write,
                 stdin_pipe, stdin_closed>>

InitEarlyExit ==
  /\ BackendStart
  /\ cgi_environ \in {<<>>, [k \in {"CONTENT_LENGTH"} |-> <<"5">>]}
  /\ input_stream \in {InputBytes(n) : n \in InputSizes}
  /\ stream \in Responses
  /\ proc_plan \in Plans

NextEarlyExit ==
  \/ NextBackend
  \/ ProcExitEarly /\ ProcOnly
  \/ PumpWriteFails /\ PumpOnly

SpecEarlyExit == InitEarlyExit /\ [][NextEarlyExit]_vars

RECURSIVE ScanAll(_, _)
\* The scan loop and the generator (lines 132-158, 217-221) over a stdout
\* that holds exactly the bytes of rest: every read returns a full chunk,
\* or what is left at the end.
ScanAll(chunks_read, rest) ==
  IF HeaderTooLarge(SumLen(chunks_read))
  THEN [outcome |-> "too_large", header |-> <<>>, body |-> <<>>]
  ELSE IF rest = <<>>
  THEN [outcome |-> "not_found", header |-> <<>>, body |-> <<>>]
  ELSE LET chuck_data == Slice(rest, 0, DEFAULT_CHUNK_SIZE)
           later == Slice(rest, Len(chuck_data), Len(rest))
           new_chunks == Append(chunks_read, chuck_data)
           found == _find_header_end_in_2_chunks(
                      new_chunks[Len(new_chunks) - 1],
                      new_chunks[Len(new_chunks)])
       IN  IF found = None THEN ScanAll(new_chunks, later)
           ELSE LET sep == _separate_header(new_chunks, found[1], found[2])
                IN  [outcome |-> "returned", header |-> sep[1],
                     body |-> sep[2] \o later]

\* What the subprocess wrote to its stdout before it closed it.
StdoutStream == Slice(stream, 0, proc_out)

CallerFinished == ScanFailed \/ gen_pc = "exhausted"

\* The caller can take a step: one of the steps of CallerNext is enabled.
CallerCanStep ==
  \/ CallerGoesOn(pump_pc) /\ ScanChunkReady
  \/ ENABLED (/\ \/ ScanTooLarge
                  \/ ScanEndOfStream
                  \/ GenYieldRemainder
                  \/ GenYieldData
                  \/ GenEndOfStream
                  \/ GenPoll
                  \/ PipeFill
               /\ CallerOnly)

\* C11: when a write of the pump has failed, the caller is not stopped: it
\* can take its next step until the scan has failed or the body stream is
\* exhausted; and the outcome of the scan, the header and the body received
\* are those the stdout stream alone gives, whether the pump failed or not.
C11_WriteFailureIsolated ==
  /\ pump_pc = "failed" => CallerFinished \/ CallerCanStep
  /\ CallerFinished =>
       LET expected == ScanAll(<<<<>>>>, StdoutStream)
       IN  /\ main_pc = expected.outcome
           /\ cgi_header = expected.header
           /\ body_received = expected.body

\* C11 witness: the pump's write failed, and the caller has the header and
\* a non-empty body to the end of the stream.
C11_Witness ==
  /\ pump_pc = "failed"
  /\ main_pc = "returned"
  /\ gen_pc = "exhausted"
  /\ body_received # <<>>

(***************************************************************************)
(* wsgi_to_git_http_backend end to end, for one subprocess output that     *)
(* reaches the adapter as two reads.  The output is far shorter than the   *)
(* source's chunk size and maximum header size, which are taken here at    *)
(* the values of the source.                                               *)
(***************************************************************************)
SourceChunkSize == 32768

SourceMaxHeaderSize == 131072

RECURSIVE ScanReads(_, _, _)
\* The scan loop and the generator (lines 132-158, 217-221) when the reads
\* of proc.stdout return the chunks of reads, in order, and then nothing.
ScanReads(chunks_read, reads, max_header_size) ==
  IF SumLen(chunks_read) > max_header_size
  THEN [outcome |-> "too_large", header |-> <<>>, body |-> <<>>]
  ELSE IF reads = <<>>
  THEN [outcome |-> "not_found", header |-> <<>>, body |-> <<>>]
  ELSE LET new_chunks == Append(chunks_read, Head(reads))
           found == _find_header_end_in_2_chunks(
                      new_chunks[Len(new_chunks) - 1],
                      new_chunks[Len(new_chunks)])
       IN  IF found = None
           THEN ScanReads(new_chunks, Tail(reads), max_header_size)
           ELSE LET sep == _separate_header(new_chunks, found[1], found[2])
                IN  [outcome |-> "returned", header |-> sep[1],
                     body |-> sep[2] \o Concat(Tail(reads))]

HtmlStatus ==
  <<"S", "t", "a", "t", "u", "s", ":", " ", "2", "0", "0", " ", "O",
    "K">>

HtmlContentType ==
  <<"C", "o", "n", "t", "e", "n", "t", "-", "T", "y", "p", "e", ":",
    " ", "t", "e", "x", "t", "/", "h", "t", "m", "l">>

HtmlBody ==
  <<"<", "h", "t", "m", "l", ">", "<", "/", "h", "t", "m", "l", ">">>

HtmlResponse ==
  HtmlStatus \o CRLF \o HtmlContentType \o CRLF \o CRLF \o HtmlBody

\* The two reads: the bytes written when the first read returned, and the
\* rest.
SplitReads ==
  <<Slice(stream, 0, proc_out), Slice(stream, proc_out, Len(stream))>>

InitCompose ==
  /\ ProcIdle
  /\ PumpIdle
  /\ EnvironIdle
  /\ MainIdle
  /\ ParseIdle
  /\ stream = HtmlResponse
  /\ stdout_kind = "split"
  /\ proc_out \in 1..(Len(stream) - 1)
  /\ stdout_closed = TRUE
  /\ proc_exited = TRUE

\* wsgi_to_git_http_backend (lines 25-32) and the caller's draining of the
\* body stream: the scan, the parse of the header it returns, the body.
Compose ==
  /\ stdout_kind = "split"
  /\ main_pc = "idle"
  /\ \A i \in 1..Len(SplitReads) : Len(SplitReads[i]) <= SourceChunkSize
  /\ LET r == ScanReads(<<<<>>>>, SplitReads, SourceMaxHeaderSize)
     IN  /\ main_pc' = r.outcome
         /\ cgi_header' = r.header
         /\ body_received' = r.body
         /\ gen_pc' = IF r.outcome = "returned" THEN "exhausted" ELSE "none"
         /\ parse_pc' = IF r.outcome = "returned" THEN "done" ELSE "idle"
         /\ parse_result' = IF r.outcome = "returned"
                            THEN parse_cgi_header(r.header)
                            ELSE NoResult
  /\ pos' = Len(stream)
  /\ UNCHANGED <<header_lines, rbuf, chunks, header_end, remainder, out_vars,
                 pump_vars, proc_vars, environ_vars>>

NextCompose == Compose

SpecCompose == InitCompose /\ [][NextCompose]_vars

\* C12: for every split of the response into two non-empty reads, the
\* adapter returns the status line "200 OK", the header list
\* [("Content-Type", "text/html")] and a body that concatenates to
\* <html></html>.
C12_EndToEnd ==
  stdout_kind = "split" /\ main_pc # "idle" =>
    /\ main_pc = "returned"
    /\ parse_result.error = "none"
    /\ parse_result.status_line = <<"2", "0", "0", " ", "O", "K">>
    /\ parse_result.list_of_headers =
         <<<<SubSeq(HtmlContentType, 1, 12), SubSeq(HtmlContentType, 15, 23)>>>>
    /\ body_received = HtmlBody

\* C12 witness: the split falls inside the CRLFCRLF and the response was
\* served.
C12_Witness ==
  /\ stdout_kind = "split"
  /\ proc_out = Len(HtmlStatus) + Len(HtmlContentType) + 4
  /\ main_pc = "returned"
  /\ body_received = HtmlBody

(***************************************************************************)
(* build_cgi_environ (lines 70-99).  A value of the gateway metadata is    *)
(* a str with its text, or some other object; user is None or a str, and   *)
(* None and '' are both the empty sequence: line 96 tests truth only.      *)
(***************************************************************************)
Unknown == <<"u", "n", "k", "n", "o", "w", "n">>

StrValue(text) == [type |-> "str", text |-> text]

OtherValue == [type |-> "other", text |-> <<>>]

\* Lines 90-93: the copy of the metadata without the values that are no str.
StrEntries(environ) ==
  [k \in {key \in DOMAIN environ : environ[key].type = "str"} |->
     environ[k].text]

\* A variant of line 98 that assigns instead of defaulting.
SetDefault_Assign(dict, key, value) == DictSet(dict, key, value)

\* Line 98: dict.setdefault(key, value).
SetDefault(dict, key, value) ==
  IF key \in DOMAIN dict THEN dict ELSE DictSet(dict, key, value)

build_cgi_environ(environ, root, remote_user) ==
  LET copied == StrEntries(environ)
      exported == DictSet(copied, "GIT_HTTP_EXPORT_ALL", <<"1">>)
      rooted == DictSet(exported, "GIT_PROJECT_ROOT", root)
      named == IF remote_user # <<>>
               THEN DictSet(rooted, "REMOTE_USER", remote_user)
               ELSE rooted
  IN  SetDefault(named, "REMOTE_USER", Unknown)

MetadataKeys ==
  {"REMOTE_USER", "GIT_PROJECT_ROOT", "GIT_HTTP_EXPORT_ALL", "wsgi.input"}

MetadataValues == {StrValue(<<>>), StrValue(<<"w">>), OtherValue}

Users == {<<>>, <<"u">>, <<"w">>}

ProjectRoots == {<<>>, <<"/", "r">>}

InitEnviron ==
  /\ ParseIdle
  /\ OutIdle
  /\ MainIdle
  /\ ProcIdle
  /\ wsgi_environ \in
       UNION {[keys -> MetadataValues] : keys \in SUBSET MetadataKeys}
  /\ git_project_root \in ProjectRoots
  /\ user \in Users
  /\ cgi_environ = <<>>
  /\ run_pc = "request"
  /\ input_length = 0
  /\ input_stream = <<>>
  /\ in_pos = 0
  /\ bytes_read = 0
  /\ bytes_to_read = 0
  /\ current_data = <<>>
  /\ to_write = <<>>
  /\ pump_pc = "idle"
  /\ stdin_pipe = <<>>
  /\ stdin_closed = FALSE

\* wsgi_to_git_http_backend, line 25.
BuildEnviron ==
  /\ run_pc = "request"
  /\ cgi_environ' = build_cgi_environ(wsgi_environ, git_project_root, user)
  /\ run_pc' = "environ_built"
  /\ UNCHANGED <<parse_vars, out_vars, main_vars, proc_vars, environ_vars,
                 input_length, input_stream, in_pos, bytes_read,
                 bytes_to_read, current_data, to_write, pump_pc, stdin_pipe,
                 stdin_closed>>

NextEnviron == BuildEnviron

SpecEnviron == InitEnviron /\ [][NextEnviron]_vars

\* The REMOTE_USER of the gateway metadata is there and is a str.
HasTextualRemoteUser ==
  /\ "REMOTE_USER" \in DOMAIN wsgi_environ
  /\ wsgi_environ["REMOTE_USER"].type = "str"

\* C13: the environment built always has REMOTE_USER: the user argument
\* when it is non-empty, otherwise the metadata's REMOTE_USER when that is
\* a str, otherwise "unknown"; GIT_HTTP_EXPORT_ALL is "1" and
\* GIT_PROJECT_ROOT is the git_project_root argument.
C13_ResolvedUser ==
  run_pc = "environ_built" =>
    /\ {"REMOTE_USER", "GIT_HTTP_EXPORT_ALL", "GIT_PROJECT_ROOT"}
         \subseteq DOMAIN cgi_environ
    /\ cgi_environ["REMOTE_USER"] =
         IF user # <<>> THEN user
         ELSE IF HasTextualRemoteUser
              THEN wsgi_environ["REMOTE_USER"].text
              ELSE Unknown
    /\ cgi_environ["GIT_HTTP_EXPORT_ALL"] = <<"1">>
    /\ cgi_environ["GIT_PROJECT_ROOT"] = git_project_root

\* C13 witness: a user argument that differs from the metadata's
\* REMOTE_USER has replaced it.
C13_Witness ==
  /\ run_pc = "environ_built"
  /\ user = <<"u">>
  /\ HasTextualRemoteUser
  /\ wsgi_environ["REMOTE_USER"].text = <<"w">>
  /\ cgi_environ["REMOTE_USER"] = <<"u">>

(***************************************************************************)
(* The backend with a subprocess that outlives its stdout.                 *)
(***************************************************************************)
InitLingering ==
  /\ BackendStart
  /\ cgi_environ \in {<<>>, [k \in {"CONTENT_LENGTH"} |-> <<"5">>]}
  /\ input_stream \in {InputBytes(n) : n \in InputSizes}
  /\ stream \in Responses
  /\ proc_plan \in LingeringPlans

FairLingering == InitLingering /\ [][NextBackend]_vars /\ Fairness

(***************************************************************************)
(* Claims about the end of the body stream and the fate of the subprocess. *)
(***************************************************************************)
\* The generator has had its zero-length read (lines 218-221 are behind it).
AfterZeroRead == gen_pc \in {"polling", "exhausted"}

\* C14: once a read of stdout has returned zero bytes the generator yields
\* no further non-empty element, and it ends after finitely many steps.
C14_BodyStreamEnds ==
  /\ [][AfterZeroRead => body_received' = body_received]_vars
  /\ (gen_pc = "polling") ~> (gen_pc = "exhausted")

\* C15: the subprocess is never left stuck writing to a stdout pipe that
\* nobody will read again: when the header scan has failed, after which
\* the caller reads no more, the subprocess is not blocked on a full stdout
\* pipe with output still to write.
C15_NeverStuckOnStdout == ScanFailed => ~ProcBlockedOnStdout

(***************************************************************************)
(* Claims about the scan loop's buffer.                                    *)
(***************************************************************************)
\* No chunk of the buffer holds a complete CRLFCRLF, and none lies in the
\* bytes of two consecutive chunks.
NoTerminatorInBuffer ==
  /\ \A i \in 1..Len(chunks) : TerminatorOffsets(chunks[i]) = {}
  /\ \A i \in 1..(Len(chunks) - 1) :
       TerminatorOffsets(chunks[i] \o chunks[i + 1]) = {}

\* The offset in the stream of the boundary the scan reported: the bytes of
\* the chunks before the one index_within_chunk counts in, plus that index.
ReportedBoundary ==
  LET n == Len(chunks)
      before == IF header_end[1] THEN SubSeq(chunks, 1, n - 2)
                ELSE SubSeq(chunks, 1, n - 1)
  IN  SumLen(before) + header_end[2]

\* C16: while the boundary is not found, no chunk of the buffer holds a
\* complete CRLFCRLF and none lies across two consecutive chunks; when the
\* loop ends with a boundary, it is the first CRLFCRLF of the stream read
\* so far.
C16_ScanLoopInvariant ==
  /\ main_pc = "scan" => NoTerminatorInBuffer
  /\ JustReturned =>
       ReportedBoundary = FirstTerminator(Slice(stream, 0, pos))

(***************************************************************************)
(* Claims about the parser's trimming and its precondition.                *)
(***************************************************************************)
\* C17: for header lines in any layout of whitespace around the colon, each
\* line is split at its first colon and both parts are trimmed: the names
\* and values returned carry no surrounding whitespace, and a Status line
\* with a non-empty value gives the status line, also when whitespace
\* stands between the name and the colon.
C17_FieldsTrimmed ==
  parse_pc = "done" =>
    /\ parse_result.error = "none"
    /\ \A i \in 1..Len(parse_result.list_of_headers) :
         LET pair == parse_result.list_of_headers[i]
         IN  /\ pair[1] = Strip(pair[1])
             /\ pair[2] = Strip(pair[2])
             /\ pair[1] # Status
    /\ /\ HasField(header_lines, Status)
       /\ LastValueOf(header_lines, Status) # <<>>
       => parse_result.status_line = LastValueOf(header_lines, Status)

\* C18: whatever the chunks and the boundary the scan found, the header it
\* returns ends with CRLF and splits on CRLF into a list whose last element
\* is empty, so the assertion of line 109 holds for it.
C18_HeaderEndsWithCRLF ==
  main_pc = "returned" =>
    LET raw_lines == Split(cgi_header, CRLF)
    IN  /\ PySuffix(cgi_header, -2) = CRLF
        /\ raw_lines[Len(raw_lines)] = <<>>
        /\ parse_cgi_header(cgi_header).error # "AssertionError"

\* C18 witness: a boundary found across two chunks, the earlier of them
\* shorter than 3 bytes, after a header of some bytes.
C18_Witness ==
  /\ main_pc = "returned"
  /\ header_end # None
  /\ header_end[1]
  /\ Len(chunks[Len(chunks) - 1]) < 3
  /\ Len(cgi_header) > 2

\* C19: the chunk buffer never holds more than DEFAULT_MAX_HEADER_SIZE +
\* DEFAULT_CHUNK_SIZE bytes, and once it holds more than
\* DEFAULT_MAX_HEADER_SIZE the scan takes no more bytes from stdout.
C19_BoundedBuffering ==
  /\ [](SumLen(chunks) <= DEFAULT_MAX_HEADER_SIZE + DEFAULT_CHUNK_SIZE)
  /\ [][main_pc = "scan" /\ SumLen(chunks) > DEFAULT_MAX_HEADER_SIZE =>
          chunks' = chunks /\ rbuf' = rbuf /\ pos' = pos]_vars

\* C19 witness: the scan has ended as too large with the buffer at its
\* limit.
C19_Witness ==
  /\ main_pc = "too_large"
  /\ SumLen(chunks) = DEFAULT_MAX_HEADER_SIZE + DEFAULT_CHUNK_SIZE

\* C20: when the generator has ended, a read of stdout has returned zero
\* bytes (stdout is closed and every byte written to it was read) and the
\* subprocess has exited.
C20_ExhaustionImpliesExit ==
  gen_pc = "exhausted" =>
    /\ proc_exited
    /\ stdout_closed
    /\ pos = proc_out
    /\ rbuf = <<>>

\* C20 witness: the generator has ended after a body was received, with
\* stdin never closed.
C20_Witness ==
  /\ gen_pc = "exhausted"
  /\ proc_exited
  /\ body_received # <<>>
  /\ ~stdin_closed

=============================================================================
